---- MODULE Spec2Model ----
(***************************************************************************)
(* A model of the grep regular-expression engine: the tokenizer            *)
(* (regex_lexer.rs), the recursive-descent parser (regex_parser.rs) and    *)
(* the frontier matcher (regex_matcher.rs), driven as main.rs and the      *)
(* test harnesses drive them.                                              *)
(*                                                                         *)
(* Characters are one-character strings, a pattern or a text is a sequence *)
(* of them.  Rust indexes from 0, TLA+ sequences from 1: chars[i] of the   *)
(* source is chars[i + 1] here, every position keeps its source value.     *)
(***************************************************************************)
EXTENDS Integers, Sequences, FiniteSets, TLC

VARIABLES
    pattern,    \* the pattern string handed to RegexLexer::new
    text,       \* the input text (chars of main.rs / the tests)
    pc,         \* where the driver stands
    lexer,      \* RegexLexer of the tokenizer harness
    tokens,     \* tokens collected by the tokenizer harness
    status,     \* outcome of the last fallible call: ok, err, exit, panic
    ast,        \* the Node returned by build_ast(0)
    positions,  \* Matcher.positions
    verdict,    \* boolean of the first top-level matches call
    verdict2,   \* boolean of a second matches call on the same Matcher
    etext,      \* a text embedding `text`
    everdict,   \* boolean of matching etext with a fresh Matcher
    parser,     \* the RegexParser as build_ast(0) left it
    incoming,   \* Matcher.positions before the last matches call
    loop        \* the locals of the Quantifier arm of matches, while it runs

vars == <<pattern, text, pc, lexer, tokens, status, ast, positions,
          verdict, verdict2, etext, everdict, parser, incoming, loop>>

----------------------------------------------------------------------------
(* Bounds of the model *)

\* generic patterns are concatenations of at most MaxPieces pieces
MaxPieces == 2
\* generic texts have at most MaxTextLen characters
MaxTextLen == 2
\* quantifier bounds {m,n} range over 0..MaxRep
MaxRep == 2
\* alternations have at most MaxAlts alternatives
MaxAlts == 3
\* an embedding adds at most MaxPad characters on each side
MaxPad == 1

\* the loop of a Quantifier is followed for at most this many repetitions
IterCap == MaxTextLen + 3

----------------------------------------------------------------------------
(* Characters *)

None == "None"

AsciiDigits == {"0", "1", "2", "3", "4", "5", "6", "7", "8", "9"}

AsciiLetters ==
    {"a", "b", "c", "d", "e", "f", "g", "h", "i", "j", "k", "l", "m",
     "n", "o", "p", "q", "r", "s", "t", "u", "v", "w", "x", "y", "z",
     "A", "B", "C", "D", "E", "F", "G", "H", "I", "J", "K", "L", "M",
     "N", "O", "P", "Q", "R", "S", "T", "U", "V", "W", "X", "Y", "Z"}

\* char::is_ascii_punctuation, less the grave accent (0x60), which a TLA+
\* string cannot hold and no pattern of the model contains
AsciiPunctuation ==
    {"!", "\"", "#", "$", "%", "&", "'", "(", ")", "*", "+", ",", "-",
     ".", "/", ":", ";", "<", "=", ">", "?", "@", "[", "\\", "]", "^",
     "_", "{", "|", "}", "~"}

is_ascii_digit(c) == c \in AsciiDigits

is_ascii_alphanumeric(c) == c \in AsciiLetters \cup AsciiDigits

is_ascii_punctuation(c) == c \in AsciiPunctuation

DigitValue(c) ==
    CASE c = "0" -> 0 [] c = "1" -> 1 [] c = "2" -> 2 [] c = "3" -> 3
      [] c = "4" -> 4 [] c = "5" -> 5 [] c = "6" -> 6 [] c = "7" -> 7
      [] c = "8" -> 8 [] c = "9" -> 9

----------------------------------------------------------------------------
(* Tokens: RegexToken.  max = NoMax stands for Option::None. *)

NoMax == -1

Token(type, c, min, max, n) ==
    [type |-> type, c |-> c, min |-> min, max |-> max, n |-> n]

TLiteral(c) == Token("Literal", c, 0, 0, 0)
TQuantifier(min, max) == Token("Quantifier", "", min, max, 0)
TBackRef(n) == Token("BackRef", "", 0, 0, n)
TPlain(type) == Token(type, "", 0, 0, 0)
TEof == TPlain("Eof")

----------------------------------------------------------------------------
(* RegexLexer *)

read_char(l) ==
    [l EXCEPT
        !.ch = IF l.read_position >= Len(l.chars)
               THEN None ELSE l.chars[l.read_position + 1],
        !.position = l.read_position,
        !.read_position = l.read_position + 1]

peek_char(l) ==
    IF l.read_position >= Len(l.chars)
    THEN None ELSE l.chars[l.read_position + 1]

RegexLexerNew(input) ==
    read_char([chars |-> input, position |-> 0, read_position |-> 0,
               ch |-> None])

\* read_number that advances after every digit, without the peek: the
\* cursor ends one character past the number
RECURSIVE read_number_loop_nopeek(_, _)
read_number_loop_nopeek(l, s) ==
    IF l.ch # None /\ is_ascii_digit(l.ch)
    THEN read_number_loop_nopeek(read_char(l), Append(s, l.ch))
    ELSE [l |-> l, s |-> s]

\* the while-let loop of read_number: the digits collected and the cursor,
\* left ON the last digit read
RECURSIVE read_number_loop(_, _)
read_number_loop(l, s) ==
    IF l.ch # None /\ is_ascii_digit(l.ch)
    THEN IF peek_char(l) # None /\ is_ascii_digit(peek_char(l))
         THEN read_number_loop(read_char(l), Append(s, l.ch))
         ELSE [l |-> l, s |-> Append(s, l.ch)]
    ELSE [l |-> l, s |-> s]

\* s.parse::<usize>() on a string of ASCII digits (the empty string is an
\* error; the patterns of the model are far too short to overflow usize)
RECURSIVE ParseDigits(_)
ParseDigits(s) ==
    IF s = <<>> THEN 0
    ELSE 10 * ParseDigits(SubSeq(s, 1, Len(s) - 1)) + DigitValue(s[Len(s)])

NumberResult(r) == [l |-> r.l, ok |-> r.s # <<>>, val |-> ParseDigits(r.s)]

read_number(l) == NumberResult(read_number_loop(l, <<>>))

LexResult(l, outcome, tok) == [l |-> l, outcome |-> outcome, tok |-> tok]

\* read_brace_quantifier, from the read_char that follows max: the cursor
\* must stand on the closing brace (self.ch.unwrap() != '}')
brace_close(l, min, max) ==
    IF l.ch = None THEN LexResult(l, "panic", TEof)
    ELSE IF l.ch # "}" THEN LexResult(l, "exit", TEof)
    ELSE LexResult(l, "ok", TQuantifier(min, max))

\* max = Some(self.read_number()?); self.read_char()
brace_after_max(rmax, min) ==
    IF ~rmax.ok THEN LexResult(rmax.l, "err", TEof)
    ELSE brace_close(read_char(rmax.l), min, rmax.val)

\* match self.ch, on the character after min
brace_separator(l, min) ==
    IF l.ch = "}" THEN LexResult(l, "ok", TQuantifier(min, min))
    ELSE IF l.ch = ","
    THEN IF peek_char(l) = "}"
         THEN LexResult(read_char(l), "ok", TQuantifier(min, NoMax))
         ELSE brace_after_max(read_number(read_char(l)), min)
    ELSE LexResult(l, "exit", TEof)

\* let min = self.read_number()?; self.read_char()
brace_after_min(rmin) ==
    IF ~rmin.ok THEN LexResult(rmin.l, "err", TEof)
    ELSE brace_separator(read_char(rmin.l), rmin.val)

read_brace_quantifier(l) == brace_after_min(read_number(read_char(l)))

\* let num = self.read_number()?; RegexToken::BackRef(num)
backref_token(r) ==
    IF r.ok THEN LexResult(r.l, "ok", TBackRef(r.val))
    ELSE LexResult(r.l, "err", TEof)

\* '\\' => match self.peek_char()
escape_token(l, p) ==
    IF p = "w" THEN LexResult(read_char(l), "ok", TPlain("AlphaNum"))
    ELSE IF p = "d" THEN LexResult(read_char(l), "ok", TPlain("Digit"))
    ELSE IF p # None /\ is_ascii_digit(p)
    THEN backref_token(read_number(read_char(l)))
    ELSE IF p # None /\ is_ascii_punctuation(p)
    THEN LexResult(read_char(l), "ok", TLiteral(p))
    ELSE LexResult(l, "exit", TEof)

\* the match of next_token, before its trailing read_char
next_token_match(l) ==
    CASE l.ch = None -> LexResult(l, "ok", TEof)
      [] l.ch = "|" -> LexResult(l, "ok", TPlain("Pipe"))
      [] l.ch = "(" -> LexResult(l, "ok", TPlain("LParen"))
      [] l.ch = ")" -> LexResult(l, "ok", TPlain("RParen"))
      [] l.ch = "[" -> LexResult(l, "ok", TPlain("LBracket"))
      [] l.ch = "]" -> LexResult(l, "ok", TPlain("RBracket"))
      [] l.ch = "^" -> LexResult(l, "ok", TPlain("StartAnchor"))
      [] l.ch = "$" -> LexResult(l, "ok", TPlain("EndAnchor"))
      [] l.ch = "." -> LexResult(l, "ok", TPlain("Wildcard"))
      [] l.ch = "*" -> LexResult(l, "ok", TQuantifier(0, NoMax))
      [] l.ch = "+" -> LexResult(l, "ok", TQuantifier(1, NoMax))
      [] l.ch = "?" -> LexResult(l, "ok", TQuantifier(0, 1))
      [] l.ch = "\\" -> escape_token(l, peek_char(l))
      [] l.ch = "{" -> read_brace_quantifier(l)
      [] OTHER -> LexResult(l, "ok", TLiteral(l.ch))

\* self.read_char(); Ok(tok)
next_token_finish(r) ==
    IF r.outcome = "ok" THEN LexResult(read_char(r.l), "ok", r.tok) ELSE r

next_token(l) == next_token_finish(next_token_match(l))

----------------------------------------------------------------------------
(* AST: Node.  One record shape for every variant; a Quantifier holds its  *)
(* boxed child as the one element of nodes.                                *)

MkNode(kind, c, nodes, group_ref, min, max) ==
    [kind |-> kind, c |-> c, nodes |-> nodes, group_ref |-> group_ref,
     min |-> min, max |-> max]

NLiteral(c) == MkNode("Literal", c, <<>>, 0, 0, 0)
NAtom(kind) == MkNode(kind, "", <<>>, 0, 0, 0)
NGroup(nodes, group_ref) == MkNode("Group", "", nodes, group_ref, 0, 0)
NOr(nodes) == MkNode("Or", "", nodes, 0, 0, 0)
NNot(nodes) == MkNode("Not", "", nodes, 0, 0, 0)
NQuantifier(node, min, max) == MkNode("Quantifier", "", <<node>>, 0, min, max)
NoNode == NAtom("NoNode")

----------------------------------------------------------------------------
(* RegexParser *)

ParseResult(p, outcome, node) == [p |-> p, outcome |-> outcome, node |-> node]

\* RegexParser::next_token, given what the lexer answered: cur_token is
\* assigned before the lexer is asked
parser_take(p, r) ==
    ParseResult([p EXCEPT !.cur_token = p.peek_token,
                          !.peek_token = IF r.outcome = "ok"
                                         THEN r.tok ELSE p.peek_token,
                          !.l = r.l],
                r.outcome, NoNode)

parser_next_token(p) == parser_take(p, next_token(p.l))

\* the second parser.next_token()? of RegexParser::new
parser_new_second(r) ==
    IF r.outcome # "ok" THEN r ELSE parser_next_token(r.p)

RegexParserNew(l) ==
    parser_new_second(parser_next_token(
        [l |-> l, cur_token |-> TEof, peek_token |-> TEof, group_ref |-> 0]))

\* the loop of build_bracket_group
RECURSIVE bracket_loop(_, _, _)

\* self.next_token()? at the end of an iteration
bracket_next(nx, nodes, negated) ==
    IF nx.outcome # "ok" THEN nx ELSE bracket_loop(nx.p, nodes, negated)

bracket_loop(p, nodes, negated) ==
    CASE p.cur_token.type = "Literal" ->
            bracket_next(parser_next_token(p),
                         Append(nodes, NLiteral(p.cur_token.c)), negated)
      [] p.cur_token.type = "RBracket" ->
            ParseResult(p, "ok", IF negated THEN NNot(nodes) ELSE NOr(nodes))
      [] OTHER -> ParseResult(p, "panic", NoNode)

build_bracket_group(p) ==
    IF p.cur_token.type = "StartAnchor"
    THEN bracket_next(parser_next_token(p), <<>>, TRUE)
    ELSE bracket_loop(p, <<>>, FALSE)

\* the loop of build_ast: one iteration is the match on cur_token followed
\* by the trailing self.next_token()?
RECURSIVE build_ast_loop(_, _, _)

build_ast_continue(nx, group_ref, nodes) ==
    IF nx.outcome # "ok" THEN nx ELSE build_ast_loop(nx.p, group_ref, nodes)

build_ast_next(p, group_ref, nodes) ==
    build_ast_continue(parser_next_token(p), group_ref, nodes)

\* RegexToken::Pipe, once the right-hand build_ast(group_ref) has returned
PipeJoin(right, group_ref, nodes) ==
    IF right.outcome # "ok" THEN right
    ELSE build_ast_next(right.p, group_ref,
                        <<NOr(<<NGroup(nodes, group_ref), right.node>>)>>)

PipeRight(nx, group_ref, nodes) ==
    IF nx.outcome # "ok" THEN nx
    ELSE PipeJoin(build_ast_loop(nx.p, group_ref, <<>>), group_ref, nodes)

PipeBranch(p, group_ref, nodes) ==
    PipeRight(parser_next_token(p), group_ref, nodes)

\* RegexToken::LBracket
BracketJoin(bracket, group_ref, nodes) ==
    IF bracket.outcome # "ok" THEN bracket
    ELSE build_ast_next(bracket.p, group_ref, Append(nodes, bracket.node))

BracketOpen(nx, group_ref, nodes) ==
    IF nx.outcome # "ok" THEN nx
    ELSE BracketJoin(build_bracket_group(nx.p), group_ref, nodes)

BracketBranch(p, group_ref, nodes) ==
    BracketOpen(parser_next_token(p), group_ref, nodes)

\* RegexToken::LParen, once the inner build_ast(self.group_ref) has returned
ParenJoin(inner, group_ref, nodes) ==
    IF inner.outcome # "ok" THEN inner
    ELSE build_ast_next(inner.p, group_ref, Append(nodes, inner.node))

ParenOpen(opened, group_ref, nodes) ==
    IF opened.outcome # "ok" THEN opened
    ELSE ParenJoin(build_ast_loop(opened.p, opened.p.group_ref, <<>>),
                   group_ref, nodes)

ParenBranch(p, group_ref, nodes) ==
    ParenOpen(parser_next_token([p EXCEPT !.group_ref = p.group_ref + 1]),
              group_ref, nodes)

\* RegexToken::Quantifier
QuantifierBranch(p, group_ref, nodes) ==
    IF nodes = <<>> THEN ParseResult(p, "err", NoNode)
    ELSE build_ast_next(p, group_ref,
            Append(SubSeq(nodes, 1, Len(nodes) - 1),
                   NQuantifier(nodes[Len(nodes)], p.cur_token.min,
                               p.cur_token.max)))

build_ast_loop(p, group_ref, nodes) ==
    CASE p.cur_token.type = "Literal" ->
            build_ast_next(p, group_ref, Append(nodes, NLiteral(p.cur_token.c)))
      [] p.cur_token.type = "Digit" ->
            build_ast_next(p, group_ref, Append(nodes, NAtom("Digit")))
      [] p.cur_token.type = "AlphaNum" ->
            build_ast_next(p, group_ref, Append(nodes, NAtom("Alphanum")))
      [] p.cur_token.type = "Wildcard" ->
            build_ast_next(p, group_ref, Append(nodes, NAtom("Wildcard")))
      [] p.cur_token.type = "Quantifier" -> QuantifierBranch(p, group_ref, nodes)
      [] p.cur_token.type = "Pipe" -> PipeBranch(p, group_ref, nodes)
      [] p.cur_token.type = "LBracket" -> BracketBranch(p, group_ref, nodes)
      [] p.cur_token.type = "LParen" -> ParenBranch(p, group_ref, nodes)
      [] p.cur_token.type = "RParen" ->
            ParseResult(p, "ok", NGroup(nodes, group_ref))
      [] p.cur_token.type = "Eof" -> ParseResult(p, "ok", NGroup(nodes, 0))
      [] OTHER -> ParseResult(p, "panic", NoNode)

build_ast(p, group_ref) == build_ast_loop(p, group_ref, <<>>)

\* main.rs: RegexLexer::new, RegexParser::new(lexer)?, parser.build_ast(0)?
CompileParsed(np) == IF np.outcome # "ok" THEN np ELSE build_ast(np.p, 0)

Compile(pat) == CompileParsed(RegexParserNew(RegexLexerNew(pat)))

----------------------------------------------------------------------------
(* Matcher *)

\* a Matcher that starts at offset 0 only
MatcherNewAnchored(len_char) == IF len_char > 0 THEN {0} ELSE {}

\* Matcher::new: the positions 0..len_char, len_char excluded
MatcherNew(len_char) == 0 .. (len_char - 1)

MatchResult(ret, pos, panic) == [ret |-> ret, positions |-> pos, panic |-> panic]

SetMin(S) == CHOOSE x \in S : \A y \in S : x <= y

\* the filter every matches call starts with
EntryFilter(pos, chars) == {x \in pos : x < Len(chars)}

LiteralStep(pos, chars, c) ==
    LET new_positions == {x + 1 : x \in {y \in pos : c = chars[y + 1]}}
    IN  MatchResult(new_positions # {}, new_positions, FALSE)

DigitStep(pos, chars) ==
    LET new_positions == {x + 1 : x \in {y \in pos : is_ascii_digit(chars[y + 1])}}
    IN  MatchResult(new_positions # {}, new_positions, FALSE)

AlphanumStep(pos, chars) ==
    LET new_positions ==
            {x + 1 : x \in {y \in pos : is_ascii_alphanumeric(chars[y + 1])
                                        \/ chars[y + 1] = "_"}}
    IN  MatchResult(new_positions # {}, new_positions, FALSE)

\* a Wildcard that steps over two characters
WildcardStepTwo(pos, chars) ==
    MatchResult(TRUE, {x + 2 : x \in pos}, FALSE)

WildcardStep(pos, chars) ==
    MatchResult(TRUE, {x + 1 : x \in pos}, FALSE)

StartAnchorStep(pos, chars) ==
    IF 0 \in pos THEN MatchResult(TRUE, {0}, FALSE)
    ELSE MatchResult(FALSE, pos, FALSE)

\* a Not that keeps the characters it should exclude
NotStepInverted(pos, chars, nodes) ==
    LET chars_not_to_match == {nodes[i].c : i \in 1 .. Len(nodes)}
        new_positions ==
            {x + 1 : x \in {y \in pos : chars[y + 1] \in chars_not_to_match}}
    IN  MatchResult(new_positions # {}, new_positions, FALSE)

NotStep(pos, chars, nodes) ==
    LET chars_not_to_match == {nodes[i].c : i \in 1 .. Len(nodes)}
        new_positions ==
            {x + 1 : x \in {y \in pos : chars[y + 1] \notin chars_not_to_match}}
    IN  IF \E i \in 1 .. Len(nodes) : nodes[i].kind # "Literal"
        THEN MatchResult(FALSE, pos, TRUE)
        ELSE MatchResult(new_positions # {}, new_positions, FALSE)

\* an upper bound that lets one repetition too many through
QuantifierMaxOffByOne(pos, chars, max) ==
    IF max # NoMax THEN max + 1 ELSE Len(chars) + 1

\* no effective upper bound when max is absent: the loop ends only when a
\* repetition fails
QuantifierMaxAbsent(pos, chars, max) ==
    IF max # NoMax THEN max ELSE IterCap + 1

\* the effective upper bound of the Quantifier loop
QuantifierMax(pos, chars, max) ==
    IF max # NoMax THEN max
    ELSE LET min_pos == IF pos = {} THEN 0 ELSE SetMin(pos)
         IN  Len(chars) - min_pos + 1

RECURSIVE matches(_, _, _)
RECURSIVE OrLoop(_, _, _, _, _, _)
RECURSIVE QuantifierLoop(_, _, _, _, _, _, _, _)
RECURSIVE GroupLoop(_, _, _, _)

\* for node in nodes: each alternative starts from a clone of the Matcher
OrLoop(nodes, i, snapshot, chars, acc, at_least_one_match) ==
    IF i > Len(nodes) THEN MatchResult(at_least_one_match, acc, FALSE)
    ELSE LET r == matches(snapshot, nodes[i], chars)
         IN  IF r.panic THEN r
             ELSE IF r.ret
             THEN OrLoop(nodes, i + 1, snapshot, chars, acc \cup r.positions, TRUE)
             ELSE OrLoop(nodes, i + 1, snapshot, chars, acc, at_least_one_match)

\* while nb_match < max: mpos is the frontier of the cloned matcher
QuantifierLoop(node, chars, mpos, nb_match, min, max, acc, at_least_one_match) ==
    IF nb_match < max
    THEN LET r == matches(mpos, node, chars)
         IN  IF r.panic THEN r
             ELSE IF r.ret
             THEN IF nb_match + 1 >= min
                  THEN QuantifierLoop(node, chars, r.positions, nb_match + 1,
                                      min, max, acc \cup r.positions, TRUE)
                  ELSE QuantifierLoop(node, chars, r.positions, nb_match + 1,
                                      min, max, acc, at_least_one_match)
             ELSE MatchResult(at_least_one_match, acc, FALSE)
    ELSE MatchResult(at_least_one_match, acc, FALSE)

QuantifierStep(pos, chars, node, min, max) ==
    QuantifierLoop(node, chars, pos, 0,
                   IF min = 0 THEN 1 ELSE min,
                   QuantifierMax(pos, chars, max),
                   IF min = 0 THEN pos ELSE {},
                   min = 0)

\* for node in nodes: the same matcher is threaded through the children
GroupLoop(nodes, i, pos, chars) ==
    IF i > Len(nodes) THEN MatchResult(TRUE, pos, FALSE)
    ELSE LET r == matches(pos, nodes[i], chars)
         IN  IF r.panic \/ ~r.ret THEN r
             ELSE GroupLoop(nodes, i + 1, r.positions, chars)

\* Matcher::matches on a Matcher whose positions are pos: the boolean
\* returned and the positions left in the Matcher
matches(pos, node_to_match, chars) ==
    LET filtered == EntryFilter(pos, chars)
        k == node_to_match.kind
    IN  CASE k = "StartAnchor" -> StartAnchorStep(filtered, chars)
          [] k = "Wildcard" -> WildcardStep(filtered, chars)
          [] k = "Literal" -> LiteralStep(filtered, chars, node_to_match.c)
          [] k = "Digit" -> DigitStep(filtered, chars)
          [] k = "Alphanum" -> AlphanumStep(filtered, chars)
          [] k = "Not" -> NotStep(filtered, chars, node_to_match.nodes)
          [] k = "Or" ->
                OrLoop(node_to_match.nodes, 1, filtered, chars, {}, FALSE)
          [] k = "Quantifier" ->
                QuantifierStep(filtered, chars, node_to_match.nodes[1],
                               node_to_match.min, node_to_match.max)
          [] k = "Group" -> GroupLoop(node_to_match.nodes, 1, filtered, chars)
          [] OTHER -> MatchResult(FALSE, filtered, TRUE)

----------------------------------------------------------------------------
(* Inputs *)

SeqsUpTo(S, n) == UNION {[1 .. k -> S] : k \in 0 .. n}

RECURSIVE Concat(_)
Concat(ss) == IF ss = <<>> THEN <<>> ELSE Head(ss) \o Concat(Tail(ss))

Repeat(c, k) == [i \in 1 .. k |-> c]

DigitChar(i) ==
    CASE i = 0 -> "0" [] i = 1 -> "1" [] i = 2 -> "2" [] i = 3 -> "3"
      [] i = 4 -> "4" [] i = 5 -> "5" [] i = 6 -> "6" [] i = 7 -> "7"
      [] i = 8 -> "8" [] i = 9 -> "9"

\* the pieces generic patterns are concatenated from
Pieces ==
    {<<"a">>, <<"b">>, <<".">>, <<"*">>, <<"+">>, <<"?">>,
     <<"(">>, <<")">>, <<"|">>, <<"[">>, <<"]">>, <<"^">>,
     <<"\\", "d">>, <<"{", "1", ",", "2", "}">>}

TextAlphabet == {"a", "b", "1"}

GenericPatterns == {Concat(ps) : ps \in SeqsUpTo(Pieces, MaxPieces)}
GenericTexts == SeqsUpTo(TextAlphabet, MaxTextLen)

Input(p, t) == [pattern |-> p, text |-> t]

GenericInputs == {Input(p, t) : p \in GenericPatterns, t \in GenericTexts}

\* quantifiers as written in a pattern, with the bounds they stand for
Quants ==
    {[s |-> <<"?">>, min |-> 0, max |-> 1],
     [s |-> <<"+">>, min |-> 1, max |-> NoMax],
     [s |-> <<"*">>, min |-> 0, max |-> NoMax]}
    \cup {[s |-> <<"{", DigitChar(m), "}">>, min |-> m, max |-> m] :
            m \in 0 .. MaxRep}
    \cup {[s |-> <<"{", DigitChar(m), ",", "}">>, min |-> m, max |-> NoMax] :
            m \in 0 .. MaxRep}
    \cup {[s |-> <<"{", DigitChar(mn[1]), ",", DigitChar(mn[2]), "}">>,
           min |-> mn[1], max |-> mn[2]] :
            mn \in {x \in (0 .. MaxRep) \X (0 .. MaxRep) : x[1] <= x[2]}}

\* y x{m,n} z against y x^k z, and x{m,n} alone against short texts
QuantX == "a"
QuantY == {"b"}
QuantZ == {"b", "c"}

QuantInputs ==
    {Input(<<yz[1], QuantX>> \o q.s \o <<yz[2]>>,
           <<yz[1]>> \o Repeat(QuantX, k) \o <<yz[2]>>) :
        yz \in QuantY \X QuantZ, q \in Quants, k \in 0 .. (MaxRep + 1)}
    \cup {Input(<<QuantX>> \o q.s, t) :
            q \in Quants, t \in SeqsUpTo({"a", "b"}, MaxRep + 1)}

\* (A1|...|An)S: the alternatives, the suffix and the texts
AltChoices == {<<"a">>, <<"b">>, <<"a", "b">>}
AltSuffix == <<"c">>

RECURSIVE JoinAlts(_)
JoinAlts(as) ==
    IF Len(as) = 1 THEN as[1] ELSE as[1] \o <<"|">> \o JoinAlts(Tail(as))

AltPattern(as) == <<"(">> \o JoinAlts(as) \o <<")">> \o AltSuffix

AltLists == UNION {[1 .. n -> AltChoices] : n \in 2 .. MaxAlts}

AltInputs ==
    {Input(AltPattern(as), t) :
        as \in AltLists, t \in SeqsUpTo({"a", "b", "c"}, MaxTextLen + 1)}

\* groups: nested, side by side, holding an alternation, followed by text
GroupPatterns ==
    {<<"(", "a", ")", "b">>, <<"(", "a", ")", "(", "b", ")">>,
     <<"(", "(", "a", ")", "b", ")">>, <<"(", "a", "|", "b", ")">>,
     <<"a", "(", "b", "|", "a", ")">>, <<"a", "|", "(", "b", ")">>}

GroupInputs ==
    {Input(p, t) : p \in GroupPatterns, t \in SeqsUpTo({"a", "b"}, 1)}

\* A[^c1...cn]B
MaxClass == 2
NotSides == {<<>>, <<"a">>, <<"c">>}
NotClasses == SeqsUpTo({"a", "b"}, MaxClass) \ {<<>>}

NotPattern(A, cs, B) == A \o <<"[", "^">> \o cs \o <<"]">> \o B

NotInputs ==
    {Input(NotPattern(ab[1], cs, ab[2]), t) :
        ab \in NotSides \X NotSides, cs \in NotClasses,
        t \in SeqsUpTo({"a", "b", "c"}, MaxTextLen + 1)}

Inputs ==
    GenericInputs \cup QuantInputs \cup AltInputs \cup NotInputs
    \cup GroupInputs

Pads == SeqsUpTo({"a", "b"}, MaxPad)

----------------------------------------------------------------------------
(* The driver of main.rs and of test_matcher: compile, then match *)

\* no Quantifier arm is running
NoLoop == [min |-> 0, max |-> 0, nb_match |-> 0, matcher |-> {},
           positions |-> {}, at_least_one_match |-> FALSE,
           is_matching |-> TRUE]

NoParser == [l |-> RegexLexerNew(<<>>), cur_token |-> TEof,
             peek_token |-> TEof, group_ref |-> 0]

Init ==
    /\ \E in \in Inputs : pattern = in.pattern /\ text = in.text
    /\ pc = "start"
    /\ lexer = RegexLexerNew(pattern)
    /\ tokens = <<>>
    /\ status = "ok"
    /\ ast = NoNode
    /\ positions = {}
    /\ verdict = FALSE
    /\ verdict2 = FALSE
    /\ etext = <<>>
    /\ everdict = FALSE
    /\ parser = NoParser
    /\ incoming = {}
    /\ loop = NoLoop

\* RegexParser::new(lexer)? and parser.build_ast(0)?
CompileStep ==
    /\ pc = "start"
    /\ \E r \in {Compile(pattern)} :
           /\ status' = r.outcome
           /\ ast' = r.node
           /\ parser' = r.p
           /\ pc' = IF r.outcome = "ok" THEN "compiled" ELSE "failed"
    /\ UNCHANGED <<pattern, text, lexer, tokens, positions, verdict, verdict2,
                   etext, everdict, incoming, loop>>

\* Matcher::new(chars.len()) and matcher.matches(&node, &chars)
MatchStep ==
    /\ pc = "compiled"
    /\ \E r \in {matches(MatcherNew(Len(text)), ast, text)} :
           /\ incoming' = MatcherNew(Len(text))
           /\ positions' = r.positions
           /\ verdict' = r.ret
           /\ status' = IF r.panic THEN "panic" ELSE "ok"
           /\ pc' = IF r.panic THEN "failed" ELSE "matched"
    /\ UNCHANGED <<pattern, text, lexer, tokens, ast, verdict2, etext,
                   everdict, parser, loop>>

\* a second matcher.matches(&node, &chars) on the same Matcher
RematchStep ==
    /\ pc = "matched"
    /\ \E r \in {matches(positions, ast, text)} :
           /\ incoming' = positions
           /\ positions' = r.positions
           /\ verdict2' = r.ret
           /\ status' = IF r.panic THEN "panic" ELSE "ok"
           /\ pc' = IF r.panic THEN "failed" ELSE "rematched"
    /\ UNCHANGED <<pattern, text, lexer, tokens, ast, verdict, etext,
                   everdict, parser, loop>>

\* the same Node matched, with a fresh Matcher, against a text u + text + v
EmbedStep ==
    /\ pc = "matched"
    /\ \E u \in Pads, v \in Pads :
        /\ Len(u) + Len(v) <= MaxPad
        /\ etext' = u \o text \o v
        /\ everdict' = matches(MatcherNew(Len(etext')), ast, etext').ret
    /\ pc' = "embedded"
    /\ UNCHANGED <<pattern, text, lexer, tokens, status, ast, positions,
                   verdict, verdict2, parser, incoming, loop>>

Next == CompileStep \/ MatchStep \/ RematchStep \/ EmbedStep

Spec == Init /\ [][Next]_vars

----------------------------------------------------------------------------
(* The driver of test_lexer: next_token until Eof *)

\* tokenizer patterns are concatenations of at most MaxLexPieces pieces
MaxLexPieces == 2

LexPieces ==
    {<<"a">>, <<"1">>, <<"2">>, <<"w">>, <<"d">>,
     <<"|">>, <<"(">>, <<")">>, <<"[">>, <<"]">>, <<"^">>, <<"$">>, <<".">>,
     <<"*">>, <<"+">>, <<"?">>, <<"{">>, <<"}">>, <<",">>, <<"\\">>,
     <<"\\", "w">>, <<"\\", "d">>, <<"\\", "1">>, <<"\\", "1", "2">>,
     <<"\\", "(">>, <<"\\", "{">>, <<"\\", "a">>,
     <<"{", "1", "}">>, <<"{", "1", "2", "}">>,
     <<"{", "1", ",", "}">>, <<"{", "1", "2", ",", "}">>,
     <<"{", "1", ",", "2", "}">>, <<"{", "1", "2", ",", "2", "1", "}">>,
     <<"{", "1">>, <<"{", "1", ",">>, <<"{", "1", ",", "2">>, <<"{", "a">>}

LexPatterns == {Concat(ps) : ps \in SeqsUpTo(LexPieces, MaxLexPieces)}

LexInit ==
    /\ pattern \in LexPatterns
    /\ text = <<>>
    /\ pc = "lexing"
    /\ lexer = RegexLexerNew(pattern)
    /\ tokens = <<>>
    /\ status = "ok"
    /\ ast = NoNode
    /\ positions = {}
    /\ verdict = FALSE
    /\ verdict2 = FALSE
    /\ etext = <<>>
    /\ everdict = FALSE
    /\ parser = NoParser
    /\ incoming = {}
    /\ loop = NoLoop

\* let token = lexer.next_token()?; break on Eof, else tokens.push(token)
LexStep ==
    /\ pc = "lexing"
    /\ \E r \in {next_token(lexer)} :
        /\ lexer' = r.l
        /\ status' = r.outcome
        /\ pc' = IF r.outcome # "ok" THEN "lexfailed"
                 ELSE IF r.tok.type = "Eof" THEN "lexed" ELSE "lexing"
        /\ tokens' = IF r.outcome = "ok" /\ r.tok.type # "Eof"
                     THEN Append(tokens, r.tok) ELSE tokens
    /\ UNCHANGED <<pattern, text, ast, positions, verdict, verdict2, etext,
                   everdict, parser, incoming, loop>>

LexNext == LexStep

SpecLex == LexInit /\ [][LexNext]_vars

----------------------------------------------------------------------------
(* The reference tokenization: each token with the number of characters   *)
(* it is written with, read off the pattern by index                      *)

\* how many ASCII digits stand at indices i, i+1, ... of chars (1-based)
RECURSIVE DigitRun(_, _)
DigitRun(chars, i) ==
    IF i <= Len(chars) /\ chars[i] \in AsciiDigits
    THEN 1 + DigitRun(chars, i + 1) ELSE 0

\* the decimal value of the n digits from index i
RECURSIVE RefNumber(_, _, _, _)
RefNumber(chars, i, n, acc) ==
    IF n = 0 THEN acc
    ELSE RefNumber(chars, i + 1, n - 1, 10 * acc + DigitValue(chars[i]))

RefPunctuation ==
    [type \in {"|", "(", ")", "[", "]", "^", "$", "."} |->
        CASE type = "|" -> "Pipe" [] type = "(" -> "LParen"
          [] type = ")" -> "RParen" [] type = "[" -> "LBracket"
          [] type = "]" -> "RBracket" [] type = "^" -> "StartAnchor"
          [] type = "$" -> "EndAnchor" [] type = "." -> "Wildcard"]

RefTok(tok, len) == [tok |-> tok, len |-> len]
Malformed == RefTok(TEof, 0)

\* the brace quantifier written from index i (chars[i] = "{")
RefBrace(chars, i) ==
    LET r1 == DigitRun(chars, i + 1)
        m == RefNumber(chars, i + 1, r1, 0)
        j == i + 1 + r1
        r2 == DigitRun(chars, j + 1)
        n == RefNumber(chars, j + 1, r2, 0)
        k == j + 1 + r2
    IN  IF r1 = 0 \/ j > Len(chars) THEN Malformed
        ELSE IF chars[j] = "}" THEN RefTok(TQuantifier(m, m), r1 + 2)
        ELSE IF chars[j] # "," THEN Malformed
        ELSE IF j + 1 <= Len(chars) /\ chars[j + 1] = "}"
        THEN RefTok(TQuantifier(m, NoMax), r1 + 3)
        ELSE IF r2 > 0 /\ k <= Len(chars) /\ chars[k] = "}"
        THEN RefTok(TQuantifier(m, n), r1 + r2 + 3)
        ELSE Malformed

\* the escape written from index i (chars[i] is the backslash)
RefEscape(chars, i) ==
    IF i + 1 > Len(chars) THEN Malformed
    ELSE IF chars[i + 1] = "w" THEN RefTok(TPlain("AlphaNum"), 2)
    ELSE IF chars[i + 1] = "d" THEN RefTok(TPlain("Digit"), 2)
    ELSE IF chars[i + 1] \in AsciiDigits
    THEN RefTok(TBackRef(RefNumber(chars, i + 1, DigitRun(chars, i + 1), 0)),
                1 + DigitRun(chars, i + 1))
    ELSE IF chars[i + 1] \in AsciiPunctuation
    THEN RefTok(TLiteral(chars[i + 1]), 2)
    ELSE Malformed

RefTokenAt(chars, i) ==
    CASE chars[i] \in DOMAIN RefPunctuation ->
            RefTok(TPlain(RefPunctuation[chars[i]]), 1)
      [] chars[i] = "*" -> RefTok(TQuantifier(0, NoMax), 1)
      [] chars[i] = "+" -> RefTok(TQuantifier(1, NoMax), 1)
      [] chars[i] = "?" -> RefTok(TQuantifier(0, 1), 1)
      [] chars[i] = "\\" -> RefEscape(chars, i)
      [] chars[i] = "{" -> RefBrace(chars, i)
      [] OTHER -> RefTok(TLiteral(chars[i]), 1)

\* the reference tokens from index i on, with the 0-based offset at which
\* each token ends; ok is FALSE when a malformed token is met
RECURSIVE RefTokens(_, _, _, _)
RefTokens(chars, i, toks, ends) ==
    IF i > Len(chars) THEN [ok |-> TRUE, toks |-> toks, ends |-> ends]
    ELSE IF RefTokenAt(chars, i).len = 0
    THEN [ok |-> FALSE, toks |-> toks, ends |-> ends]
    ELSE RefTokens(chars, i + RefTokenAt(chars, i).len,
                   Append(toks, RefTokenAt(chars, i).tok),
                   Append(ends, i - 1 + RefTokenAt(chars, i).len))

Reference(chars) == RefTokens(chars, 1, <<>>, <<>>)

WellFormed(chars) == Reference(chars).ok

\* the 0-based offset of the character right after the first n tokens
RefOffset(ref, n) == IF n = 0 THEN 0 ELSE ref.ends[n]

CharAt(chars, off) == IF off >= Len(chars) THEN None ELSE chars[off + 1]

(* C7: a malformed brace quantifier or an unsupported escape makes         *)
(* next_token return an error to its caller: a pattern that is not         *)
(* well-formed is never tokenized to the end, and the call that fails on   *)
(* it returns Err; it neither exits the process nor panics.                *)
C7_LexErrorsAreValues ==
    /\ pc = "lexfailed" => status = "err"
    /\ pc = "lexed" => WellFormed(pattern)

(* C9: on a well-formed pattern next_token never fails, the tokens         *)
(* returned so far are the first tokens of the reference tokenization,     *)
(* the current character is the one right after the last token returned    *)
(* (each token consumed exactly its own characters; position is its offset *)
(* until Eof is returned), and at Eof the tokens are the whole reference   *)
(* tokenization.                                                           *)
C9_TokenizationIsReference ==
    WellFormed(pattern) =>
        \E ref \in {Reference(pattern)} :
            /\ pc # "lexfailed"
            /\ Len(tokens) <= Len(ref.toks)
            /\ tokens = SubSeq(ref.toks, 1, Len(tokens))
            /\ pc = "lexing" => lexer.position = RefOffset(ref, Len(tokens))
            /\ lexer.ch = CharAt(pattern, RefOffset(ref, Len(tokens)))
            /\ pc = "lexed" => tokens = ref.toks

\* reached: a two-digit {m,n} and a two-digit back-reference, each followed
\* by another token, tokenized to the end
C9_Witness ==
    /\ pc = "lexed"
    /\ WellFormed(pattern)
    /\ \/ (Len(tokens) = 2 /\ tokens[1] = TQuantifier(12, 21)
                           /\ tokens[2] = TBackRef(12))
       \/ (Len(tokens) = 2 /\ tokens[1] = TBackRef(12)
                           /\ tokens[2] = TQuantifier(12, NoMax))

----------------------------------------------------------------------------
(* Reference notions the claims about matching are stated with *)

\* w occurs in t as a contiguous substring
Contains(t, w) ==
    \E i \in 0 .. (Len(t) - Len(w)) : SubSeq(t, i + 1, i + Len(w)) = w

\* the length of the longest run of c in t
LongestRun(t, c) ==
    CHOOSE k \in 0 .. Len(t) :
        /\ Contains(t, Repeat(c, k))
        /\ ~Contains(t, Repeat(c, k + 1))

Literals(w) == [i \in 1 .. Len(w) |-> NLiteral(w[i])]

RECURSIVE HasStartAnchor(_)
HasStartAnchor(node) ==
    \/ node.kind = "StartAnchor"
    \/ \E i \in 1 .. Len(node.nodes) : HasStartAnchor(node.nodes[i])

\* k repetitions are within the bounds a quantifier stands for
WithinBounds(q, k) == q.min <= k /\ (q.max = NoMax \/ k <= q.max)

\* the scan of a token list for parentheses: the depth at the end, or -1
\* once a closing parenthesis has no open one
RECURSIVE ParenDepth(_, _, _)
ParenDepth(toks, i, depth) ==
    IF i > Len(toks) THEN depth
    ELSE IF toks[i].type = "LParen" THEN ParenDepth(toks, i + 1, depth + 1)
    ELSE IF toks[i].type = "RParen"
    THEN IF depth = 0 THEN -1 ELSE ParenDepth(toks, i + 1, depth - 1)
    ELSE ParenDepth(toks, i + 1, depth)

\* a pattern of atoms, groups and alternations whose token stream ends with
\* a group still open
UnterminatedGroup(pat) ==
    \E ref \in {Reference(pat)} :
        /\ ref.ok
        /\ \A i \in 1 .. Len(ref.toks) :
              ref.toks[i].type \in {"Literal", "Digit", "AlphaNum", "Wildcard",
                                    "LParen", "RParen", "Pipe"}
        /\ ParenDepth(ref.toks, 1, 0) > 0

----------------------------------------------------------------------------
(* Claims about compiling and matching *)

(* C1: for a pattern (A1|A2|...|An)S with n >= 2 literal alternatives and  *)
(* a non-empty literal suffix S after the closing parenthesis, compiling   *)
(* succeeds and matching returns true iff the text contains some Ai        *)
(* immediately followed by S, for every n >= 2.                            *)
C1_AlternationBoundedByGroup ==
    \A as \in AltLists :
        pattern = AltPattern(as) =>
            /\ pc # "failed"
            /\ pc = "matched" =>
                (verdict <=> \E i \in 1 .. Len(as) :
                                Contains(text, as[i] \o AltSuffix))

C3_StartAnchoring ==
    (/\ pattern # <<>>
     /\ pattern[1] = "^"
     /\ \A i \in 2 .. Len(pattern) : pattern[i] \notin {"^", "$"}
     /\ Compile(Tail(pattern)).outcome = "ok")
    => /\ pc # "failed"
       /\ pc = "matched" =>
            verdict = matches({0}, Compile(Tail(pattern)).node, text).ret

(* C4: y x{m,n} z matches y x^k z iff m <= k <= n, and x{m,n} alone        *)
(* matches a text iff its longest run of x has length >= m; ?, + and *     *)
(* read as {0,1}, {1,} and {0,}.                                           *)
C4_QuantifierBounds ==
    pc \in {"failed", "matched"} =>
        /\ \A q \in Quants, y \in QuantY, z \in QuantZ, k \in 0 .. (MaxRep + 1) :
              (/\ pattern = <<y, QuantX>> \o q.s \o <<z>>
               /\ text = <<y>> \o Repeat(QuantX, k) \o <<z>>)
              => /\ pc # "failed"
                 /\ pc = "matched" => (verdict <=> WithinBounds(q, k))
        /\ \A q \in Quants :
              pattern = <<QuantX>> \o q.s
              => /\ pc # "failed"
                 /\ pc = "matched" =>
                       (verdict <=> LongestRun(text, QuantX) >= q.min)

\* reached: b a{1,2} c refuses b aaa c, one repetition too many
C4_Witness ==
    /\ pc = "matched"
    /\ pattern = <<"b", "a", "{", "1", ",", "2", "}", "c">>
    /\ text = <<"b", "a", "a", "a", "c">>
    /\ ~verdict

(* C5: A[^c1...cn]B compiles to the literals of A, a Not node over exactly *)
(* the literals c1..cn, and the literals of B; it matches a text iff the   *)
(* text contains A, then one character that is none of c1..cn, then B; and *)
(* the Not node alone leaves p + 1 for exactly the positions p < text      *)
(* length whose character is none of c1..cn.                               *)
C5_NegatedClass ==
    pc \in {"failed", "compiled", "matched"} =>
      \A ab \in NotSides \X NotSides, cs \in NotClasses :
        pattern = NotPattern(ab[1], cs, ab[2]) =>
            /\ pc # "failed"
            /\ pc \in {"compiled", "matched"} =>
                ast = NGroup(Literals(ab[1]) \o <<NNot(Literals(cs))>>
                             \o Literals(ab[2]), 0)
            /\ pc = "matched" =>
                /\ verdict <=>
                    \E i \in 1 .. Len(text) :
                        /\ \A j \in 1 .. Len(cs) : text[i] # cs[j]
                        /\ i > Len(ab[1])
                        /\ SubSeq(text, i - Len(ab[1]), i - 1) = ab[1]
                        /\ i + Len(ab[2]) <= Len(text)
                        /\ SubSeq(text, i + 1, i + Len(ab[2])) = ab[2]
                /\ (ab[1] = <<>> /\ ab[2] = <<>>) =>
                    positions = {i \in 1 .. Len(text) :
                                    \A j \in 1 .. Len(cs) : text[i] # cs[j]}

\* reached: a[^ab]c finds "acc" and a[^ab]c refuses "abc"
C5_Witness ==
    /\ pc = "matched"
    /\ pattern = NotPattern(<<"a">>, <<"a", "b">>, <<"c">>)
    /\ \/ (text = <<"a", "c", "c">> /\ verdict)
       \/ (text = <<"a", "b", "c">> /\ ~verdict)

(* C6: a second top-level matches call on the same Matcher, after the      *)
(* first has mutated its positions, returns the same boolean as the first. *)
C6_RepeatedMatchSameVerdict ==
    pc = "rematched" => verdict2 = verdict

(* C8: when the token stream ends while a ( is still open, build_ast(0)    *)
(* returns a ParseError and no AST.                                        *)
C8_UnterminatedGroupIsError ==
    (UnterminatedGroup(pattern) /\ pc # "start") =>
        (status = "err" /\ ast = NoNode)

----------------------------------------------------------------------------
(* Single advance steps: Matcher::matches applied to one node after        *)
(* another, on a Matcher created with any length, as the loops of Group,   *)
(* Or and Quantifier apply it                                              *)

\* the patterns whose nodes are stepped
StepPatterns ==
    {<<"a">>, <<"b">>, <<"\\", "d">>, <<"\\", "w">>, <<".">>,
     <<"[", "^", "a", "]">>, <<"[", "a", "b", "]">>, <<"a", "|", "b">>,
     <<"(", "a", "b", ")">>, <<"a", ".">>, <<".", "*">>, <<".", "+">>,
     <<"(", "a", "*", ")", "*">>, <<"(", "a", "?", ")", "+">>}
    \cup {<<QuantX>> \o q.s : q \in Quants}

StepRoots == {Compile(p).node : p \in StepPatterns}

\* every node of each pattern's AST (the calls the loops of Group, Or and
\* Quantifier make on their children), and the StartAnchor node the Matcher
\* implements
RECURSIVE SubNodes(_)
SubNodes(n) ==
    {n} \cup UNION {SubNodes(n.nodes[i]) : i \in 1 .. Len(n.nodes)}

StepNodes ==
    UNION {SubNodes(g) : g \in StepRoots} \cup {NAtom("StartAnchor")}

StepInit ==
    /\ pattern = <<>>
    /\ text \in GenericTexts
    /\ pc = "fresh"
    /\ lexer = RegexLexerNew(pattern)
    /\ tokens = <<>>
    /\ status = "ok"
    /\ ast = NoNode
    /\ positions \in {MatcherNew(n) : n \in 0 .. (MaxTextLen + 1)}
    /\ verdict = FALSE
    /\ verdict2 = FALSE
    /\ etext = <<>>
    /\ everdict = FALSE
    /\ parser = NoParser
    /\ incoming = {}
    /\ loop = NoLoop

\* one matcher.matches(node, chars) on the Matcher as the last call left it
StepAdvance ==
    /\ pc \in {"fresh", "stepped"}
    /\ \E node \in StepNodes :
        \E r \in {matches(positions, node, text)} :
            /\ ~r.panic
            /\ ast' = node
            /\ incoming' = positions
            /\ positions' = r.positions
            /\ verdict' = r.ret
    /\ pc' = "stepped"
    /\ UNCHANGED <<pattern, text, lexer, tokens, status, verdict2, etext,
                   everdict, parser, loop>>

StepNext == StepAdvance

SpecStep == StepInit /\ [][StepNext]_vars

\* the character class a single-character atom tests
AtomPasses(node, c) ==
    CASE node.kind = "Literal" -> c = node.c
      [] node.kind = "Digit" -> c \in AsciiDigits
      [] node.kind = "Alphanum" -> c \in AsciiLetters \cup AsciiDigits \cup {"_"}
      [] node.kind = "Wildcard" -> TRUE

(* C10: after a matches step on a Literal, Digit, Alphanum, Wildcard, Not, *)
(* Or or Quantifier node the boolean returned is true iff the frontier     *)
(* left behind is non-empty, a Group that returns true leaves a non-empty  *)
(* frontier, and for the single-character atoms, Wildcard included, the    *)
(* frontier left is p + 1 for the incoming positions p < text length whose *)
(* character passes, the step returning false when there is none.          *)
C10_BooleanAgreesWithFrontier ==
    pc = "stepped" =>
        /\ ast.kind \in {"Literal", "Digit", "Alphanum", "Wildcard", "Not",
                         "Or", "Quantifier"}
            => (verdict <=> positions # {})
        /\ ast.kind = "Group" => (verdict => positions # {})
        /\ ast.kind \in {"Literal", "Digit", "Alphanum", "Wildcard"}
            => /\ positions = {p + 1 : p \in {x \in incoming :
                                    x < Len(text) /\ AtomPasses(ast, text[x + 1])}}
               /\ positions = {} => ~verdict

\* the frontier after exactly k repetitions of child from F: R_0 = F, R_k is
\* what child leaves when applied to R_(k-1)
RECURSIVE Rep(_, _, _, _)
Rep(F, child, chars, k) ==
    IF k = 0 THEN F
    ELSE matches(Rep(F, child, chars, k - 1), child, chars).positions

\* repetitions 1 .. k of child from F all succeed
RECURSIVE RepOk(_, _, _, _)
RepOk(F, child, chars, k) ==
    \/ k = 0
    \/ /\ RepOk(F, child, chars, k - 1)
       /\ matches(Rep(F, child, chars, k - 1), child, chars).ret

\* the repetition counts a Quantifier admits on a text
Admissible(min, max, chars) ==
    min .. (IF max = NoMax THEN Len(chars) + 1 ELSE max)

(* C11: after a Quantifier{child, min, max} entered with frontier F, the   *)
(* frontier is the union of R_k over every k in min .. max (unbounded when *)
(* max is absent) whose repetitions all succeed, where R_0 is F unchanged, *)
(* a position equal to the text length included.                           *)
C11_QuantifierFrontierIsUnion ==
    (pc = "stepped" /\ ast.kind = "Quantifier") =>
        positions =
            UNION {Rep(incoming, ast.nodes[1], text, k) :
                     k \in {j \in Admissible(ast.min, ast.max, text) :
                              RepOk(incoming, ast.nodes[1], text, j)}}

(* C12: after every matches step of every node kind, on a Matcher created  *)
(* with any length, every position of the frontier is at most the text     *)
(* length.                                                                 *)
C12_FrontierWithinText ==
    pc = "stepped" => \A p \in positions : p <= Len(text)

\* a Matcher created longer than the text has been stepped and a thread of
\* it has consumed the whole text
C12_Witness ==
    /\ pc = "stepped"
    /\ Len(text) = MaxTextLen
    /\ Len(text) \in incoming
    /\ Len(text) \in positions
    /\ ast.kind = "Quantifier"

----------------------------------------------------------------------------
(* Claims about the shape of the AST *)

\* the atoms of a node in left-to-right order
RECURSIVE Yield(_)
Yield(node) ==
    IF node.kind \in {"Literal", "Digit", "Alphanum", "Wildcard"}
    THEN <<[kind |-> node.kind, c |-> node.c]>>
    ELSE Concat([i \in 1 .. Len(node.nodes) |-> Yield(node.nodes[i])])

\* the atoms of a token list in left-to-right order
RECURSIVE TokYield(_)
TokYield(toks) ==
    IF toks = <<>> THEN <<>>
    ELSE (CASE Head(toks).type = "Literal" ->
                    <<[kind |-> "Literal", c |-> Head(toks).c]>>
            [] Head(toks).type = "Digit" -> <<[kind |-> "Digit", c |-> ""]>>
            [] Head(toks).type = "AlphaNum" -> <<[kind |-> "Alphanum", c |-> ""]>>
            [] Head(toks).type = "Wildcard" -> <<[kind |-> "Wildcard", c |-> ""]>>
            [] OTHER -> <<>>)
         \o TokYield(Tail(toks))

\* the number of ( among the first i tokens
OpenCount(toks, i) == Cardinality({j \in 1 .. i : toks[j].type = "LParen"})

\* the index of the k-th ( in left-to-right order
OpenIndex(toks, k) ==
    CHOOSE i \in 1 .. Len(toks) :
        toks[i].type = "LParen" /\ OpenCount(toks, i) = k

\* the index of the ) that closes the ( at index i
MatchingClose(toks, i) ==
    CHOOSE j \in (i + 1) .. Len(toks) :
        /\ ParenDepth(SubSeq(toks, i, j), 1, 0) = 0
        /\ \A h \in (i + 1) .. (j - 1) : ParenDepth(SubSeq(toks, i, h), 1, 0) > 0

\* the tokens strictly between the k-th ( and its matching )
GroupExtent(toks, k) ==
    SubSeq(toks, OpenIndex(toks, k) + 1,
           MatchingClose(toks, OpenIndex(toks, k)) - 1)

\* a pattern of atoms, groups and alternations with balanced parentheses
BalancedGroups(pat) ==
    \E ref \in {Reference(pat)} :
        /\ ref.ok
        /\ \A i \in 1 .. Len(ref.toks) :
              ref.toks[i].type \in {"Literal", "Digit", "AlphaNum", "Wildcard",
                                    "LParen", "RParen", "Pipe", "Eof"}
        /\ ParenDepth(ref.toks, 1, 0) = 0

\* g is an alternative of an Or node of the tree
IsAlternative(g, tree) ==
    \E o \in SubNodes(tree) :
        o.kind = "Or" /\ \E i \in 1 .. Len(o.nodes) : o.nodes[i] = g

(* C13: in the AST build_ast(0) returns for a pattern with balanced        *)
(* parentheses, the k-th ( in left-to-right order yields a Group node with *)
(* group_ref = k that holds exactly the nodes of the sub-pattern between   *)
(* that ( and its matching ), and group_ref 0 appears only on the implicit *)
(* outermost group (and the wrappers of its alternatives), also when the   *)
(* group contains | and when pattern text follows the ).                   *)
C13_GroupNumberingAndExtent ==
    (BalancedGroups(pattern) /\ pc # "start") =>
        /\ status # "err" /\ ast.kind = "Group" /\ ast.group_ref = 0
        /\ \A g \in SubNodes(ast) :
              (g.kind = "Group" /\ g.group_ref = 0 /\ g # ast)
                  => IsAlternative(g, ast)
        /\ \A k \in 1 .. OpenCount(Reference(pattern).toks,
                                   Len(Reference(pattern).toks)) :
              \E g \in SubNodes(ast) :
                  /\ g.kind = "Group"
                  /\ g.group_ref = k
                  /\ Yield(g) = TokYield(GroupExtent(Reference(pattern).toks, k))

(* C15: whenever build_ast(0) returns successfully the parser's current    *)
(* token is Eof and every atom of the pattern is in the returned AST: a )  *)
(* that has no open ( does not end the top-level parse with the rest of    *)
(* the pattern ignored.                                                    *)
C15_ParseConsumesPattern ==
    pc = "compiled" =>
        /\ parser.cur_token.type = "Eof"
        /\ WellFormed(pattern) =>
              Yield(ast) = TokYield(Reference(pattern).toks)

----------------------------------------------------------------------------
(* The Quantifier arm of Matcher::matches, one repetition of its while     *)
(* loop at a time                                                          *)

LoopNodes == {n \in StepNodes : n.kind = "Quantifier"}

LoopInit ==
    /\ pattern = <<>>
    /\ text \in GenericTexts
    /\ pc = "call"
    /\ lexer = RegexLexerNew(pattern)
    /\ tokens = <<>>
    /\ status = "ok"
    /\ ast \in LoopNodes
    /\ positions \in SUBSET (0 .. (MaxTextLen + 1))
    /\ verdict = FALSE
    /\ verdict2 = FALSE
    /\ etext = <<>>
    /\ everdict = FALSE
    /\ parser = NoParser
    /\ incoming = {}
    /\ loop = NoLoop

\* the entry filter, the zero-repetition case, the effective max and the
\* clone of the Matcher
QuantifierEnter ==
    /\ pc = "call"
    /\ \E filtered \in {EntryFilter(positions, text)} :
        /\ incoming' = positions
        /\ positions' = filtered
        /\ loop' = [min |-> IF ast.min = 0 THEN 1 ELSE ast.min,
                    max |-> QuantifierMax(filtered, text, ast.max),
                    nb_match |-> 0,
                    matcher |-> filtered,
                    positions |-> IF ast.min = 0 THEN filtered ELSE {},
                    at_least_one_match |-> (ast.min = 0),
                    is_matching |-> TRUE]
    /\ pc' = "loop"
    /\ UNCHANGED <<pattern, text, lexer, tokens, status, ast, verdict,
                   verdict2, etext, everdict, parser>>

\* one run of the body of while nb_match < max
QuantifierIterate ==
    /\ pc = "loop"
    /\ loop.nb_match < loop.max
    /\ loop.nb_match < IterCap
    /\ \E r \in {matches(loop.matcher, ast.nodes[1], text)} :
        /\ ~r.panic
        /\ loop' = IF r.ret
                   THEN [loop EXCEPT
                           !.nb_match = @ + 1,
                           !.matcher = r.positions,
                           !.positions =
                               IF loop.nb_match + 1 >= loop.min
                               THEN @ \cup r.positions ELSE @,
                           !.at_least_one_match =
                               @ \/ loop.nb_match + 1 >= loop.min]
                   ELSE [loop EXCEPT !.matcher = r.positions,
                                     !.is_matching = FALSE]
        /\ pc' = IF r.ret THEN "loop" ELSE "break"
    /\ UNCHANGED <<pattern, text, lexer, tokens, status, ast, positions,
                   verdict, verdict2, etext, everdict, parser, incoming>>

\* self.positions = positions; at_least_one_match
QuantifierReturn ==
    /\ pc = "break" \/ (pc = "loop" /\ ~(loop.nb_match < loop.max))
    /\ positions' = loop.positions
    /\ verdict' = loop.at_least_one_match
    /\ pc' = "done"
    /\ UNCHANGED <<pattern, text, lexer, tokens, status, ast, verdict2,
                   etext, everdict, parser, incoming, loop>>

LoopNext == QuantifierEnter \/ QuantifierIterate \/ QuantifierReturn

SpecLoop == LoopInit /\ [][LoopNext]_vars /\ WF_vars(LoopNext)

\* how many times the body of the loop has run
LoopRuns == loop.nb_match + (IF loop.is_matching THEN 0 ELSE 1)

\* the smallest position of the frontier the Quantifier works on, 0 when
\* there is none
MinPos ==
    IF EntryFilter(incoming, text) = {} THEN 0
    ELSE SetMin(EntryFilter(incoming, text))

\* the loop, followed step by step, ends as the matches operator says
LoopAgreesWithMatches ==
    pc = "done" =>
        /\ positions = matches(incoming, ast, text).positions
        /\ verdict = matches(incoming, ast, text).ret

\* the body of the loop has run at most as often as the bound allows, and
\* the bound is computed without underflow
LoopWithinBound ==
    pc \in {"loop", "break", "done"} =>
        /\ ast.max = NoMax =>
              /\ MinPos <= Len(text)
              /\ loop.max = Len(text) - MinPos + 1
              /\ LoopRuns <= Len(text) - MinPos + 1
        /\ ast.max # NoMax => LoopRuns <= ast.max

(* C14: the Quantifier arm of a matches call terminates: with max absent   *)
(* its loop runs at most (text length - smallest frontier position + 1)    *)
(* times, also when its child succeeds without consuming a character, and  *)
(* the bound is computed without underflow.                                *)
C14_MatchingTerminates ==
    [](LoopWithinBound /\ LoopAgreesWithMatches) /\ <>(pc = "done")

\* an unbounded Quantifier whose child succeeds without consuming a
\* character has run its loop as often as the bound allows and returned
C14_Witness ==
    /\ pc = "done"
    /\ ast.max = NoMax
    /\ ast.nodes[1].kind = "Group"
    /\ text # <<>>
    /\ incoming # {}
    /\ loop.matcher = EntryFilter(incoming, text)
    /\ LoopRuns = Len(text) - MinPos + 1

====
